---- MODULE Spec2Model ----
(***************************************************************************)
(* Model of the blog-post report pipeline: the fetcher writes the          *)
(* persisted record file (airtable_blog_fetcher.py, fetch_and_export.py),  *)
(* the sender loads it, composes a message and transmits it over an SMTP   *)
(* session, and logs successful sends (gmail_sender.py); the formatter and  *)
(* the parser render the file as HTML, plain text, Markdown and CSV         *)
(* (email_formatter.py, parse_blog_posts.py).                               *)
(*                                                                         *)
(* Dates are day numbers.  A file is a record [exists, content].  Mail     *)
(* addresses are atoms; an address header is the sequence of the atoms in  *)
(* it.  The outcomes of the SMTP server are inputs of the send actions.    *)
(***************************************************************************)
EXTENDS Integers, Sequences, FiniteSets, TLC

\* ---------------------------------------------------------------- bounds
MaxDay == 1
MaxAhead == 1
MaxPosts == 1
MaxLog == 2
MaxRecipients == 3
\* the record files rendered: at most MaxReportPosts records, due at most
\* MaxReportAhead days after the fetch
MaxReportPosts == 2
MaxReportAhead == 3

\* urgent threshold of the subject statistics (days_until_due <= 2)
UrgentDays == 2
\* X-Priority is raised when urgent_count > 5
PriorityUrgent == 5
\* the fetch window ends 7 days from today (exclusive)
WindowDays == 7

Addrs == {"a@x", "b@x"}
SenderEmail == "sender@x"
SenderName == "Blog Report System"

VARIABLES today, posts_file, log_file, calls, multi, run

vars == <<today, posts_file, log_file, calls, multi, run>>

\* ------------------------------------------------------------- utilities
NoFile == [exists |-> FALSE, content |-> <<>>]
File(c) == [exists |-> TRUE, content |-> c]

RECURSIVE SeqsUpTo(_, _)
SeqsUpTo(S, n) ==
  IF n = 0 THEN {<<>>}
  ELSE LET shorter == SeqsUpTo(S, n - 1)
       IN  shorter \cup {Append(s, x) : s \in {t \in shorter : Len(t) = n - 1}, x \in S}

IsPrefix(s, t) == Len(s) <= Len(t) /\ SubSeq(t, 1, Len(s)) = s

\* dict.get(k, default); <<>> is the empty dict
Get(f, k, default) == IF k \in DOMAIN f THEN f[k] ELSE default

\* ------------------------------------------------ fetcher and persistence
\* What the records source returns for the filter IS_AFTER(today) and
\* IS_BEFORE(today + 7), sorted ascending by due date.
RawRecord(d) == [id |-> "rec", fields |-> ("Due Date" :> d)]

SourceReplies(now) ==
  {s \in SeqsUpTo({RawRecord(d) : d \in (now + 1) .. (now + MaxAhead)}, MaxPosts) :
     /\ \A i \in DOMAIN s : s[i].fields["Due Date"] > now
                              /\ s[i].fields["Due Date"] < now + WindowDays
     /\ \A i \in DOMAIN s : \A j \in DOMAIN s :
          i < j => s[i].fields["Due Date"] <= s[j].fields["Due Date"]}

\* fields.get('Due Date') and record.get('id') of an absent key: None
NoDate == -1
NoId == "None"

\* Notes are sequences of characters; a note of n characters
Text(n) == [i \in 1 .. n |-> i]

\* (variant: a record without author gets the empty string)
Defaults_NoAuthor ==
  [title |-> "Untitled", status |-> "Not Started", author |-> "",
   category |-> "", notes |-> <<>>, word_count_target |-> 0, priority |-> "Medium"]

\* the second arguments of fields.get: the values of the missing fields
Defaults ==
  [title |-> "Untitled", status |-> "Not Started", author |-> "Unassigned",
   category |-> "", notes |-> <<>>, word_count_target |-> 0, priority |-> "Medium"]

\* One canonical record per raw record.  The key days_until_due is set only
\* when due_date is truthy.
_process_records(records, now) ==
  [i \in DOMAIN records |->
     LET fields == Get(records[i], "fields", <<>>)
         post_data ==
           [id |-> Get(records[i], "id", NoId),
            title |-> Get(fields, "Title", Defaults.title),
            due_date |-> Get(fields, "Due Date", NoDate),
            status |-> Get(fields, "Status", Defaults.status),
            author |-> Get(fields, "Author", Defaults.author),
            category |-> Get(fields, "Category", Defaults.category),
            notes |-> Get(fields, "Notes", Defaults.notes),
            word_count_target |-> Get(fields, "Word Count Target", Defaults.word_count_target),
            priority |-> Get(fields, "Priority", Defaults.priority)]
     IN  IF post_data.due_date # NoDate
         THEN post_data @@ ("days_until_due" :> (post_data.due_date - now))
         ELSE post_data]

\* What requests.get and raise_for_status do: "none" is a 2xx reply with
\* records, the others are the exceptions raised.
Reply(error, records) == [error |-> error, records |-> records]

\* what a request that fails raises: requests.get a ConnectionError or a
\* Timeout, raise_for_status an HTTPError (401, 403, 5xx, ...)
RequestFailures == {"ConnectionError", "Timeout", "HTTPError"}

\* (variant: the handler catches the connection failures only)
RequestException_TransportOnly == {"ConnectionError", "Timeout"}

\* the exceptions that except requests.exceptions.RequestException catches
RequestException == {"ConnectionError", "Timeout", "HTTPError"}

\* The outcome of one fetch: the exception that leaves the method ("none"
\* when it returns), what it printed, and the records returned.
get_posts_due_this_week(reply, now) ==
  IF reply.error = "none"
  THEN [raised |-> "none", printed |-> <<>>,
        posts |-> _process_records(reply.records, now)]
  ELSE IF reply.error \in RequestException
  THEN [raised |-> "none", printed |-> <<"fetch_error">>, posts |-> <<>>]
  ELSE [raised |-> reply.error, printed |-> <<>>, posts |-> <<>>]

export_to_json(posts) == File(posts)

\* The environment of the fetcher; "" is an unset (or empty) variable.
FetcherEnv(key, base) == [AIRTABLE_API_KEY |-> key, AIRTABLE_BASE_ID |-> base]

\* AirtableBlogFetcher.__init__ returns (TRUE) or raises ValueError (FALSE)
AirtableBlogFetcher(env) == env.AIRTABLE_API_KEY # "" /\ env.AIRTABLE_BASE_ID # ""

\* One run of airtable_blog_fetcher.main, in which the operator answers
\* export_choice to "Export to JSON file?".
fetcher_main(env, reply, pf, now, export_choice) ==
  IF ~AirtableBlogFetcher(env)
  THEN [kind |-> "fetch", env |-> env, reply |-> reply, constructed |-> FALSE,
        requests |-> 0, printed |-> <<"configuration_error">>,
        fetch |-> [raised |-> "none", printed |-> <<>>, posts |-> <<>>],
        posts |-> <<>>, file_before |-> pf, file_after |-> pf]
  ELSE LET f == get_posts_due_this_week(reply, now)
       IN  [kind |-> "fetch", env |-> env, reply |-> reply, constructed |-> TRUE,
            requests |-> 1,
            printed |-> f.printed \o (IF f.raised # "none" THEN <<"error">> ELSE <<>>),
            fetch |-> f,
            posts |-> f.posts,
            file_before |-> pf,
            file_after |-> IF f.raised = "none" /\ f.posts # <<>> /\ export_choice = "y"
                           THEN export_to_json(f.posts) ELSE pf]

\* (variant: the record file is written after every fetch)
ShouldExport_Always(posts) == TRUE

\* fetch_and_export.main writes the file only under "if posts:"
ShouldExport(posts) == posts # <<>>

\* One run of fetch_and_export.main over the record file pf: whether the
\* fetcher was constructed, the requests made, the outcome of the fetch, the
\* records returned and the record file before and after.
fetch_and_export(env, reply, pf, now) ==
  IF ~AirtableBlogFetcher(env)
  THEN [kind |-> "fetch", env |-> env, reply |-> reply, constructed |-> FALSE,
        requests |-> 0, printed |-> <<"error">>,
        fetch |-> [raised |-> "none", printed |-> <<>>, posts |-> <<>>],
        posts |-> <<>>, file_before |-> pf, file_after |-> pf]
  ELSE LET f == get_posts_due_this_week(reply, now)
       IN  [kind |-> "fetch", env |-> env, reply |-> reply, constructed |-> TRUE,
            requests |-> 1,
            printed |-> f.printed \o (IF f.raised # "none" THEN <<"error">> ELSE <<>>),
            fetch |-> f,
            posts |-> f.posts,
            file_before |-> pf,
            file_after |-> IF f.raised = "none" /\ ShouldExport(f.posts)
                           THEN export_to_json(f.posts) ELSE pf]

\* json.load of the persisted file: the stored values, as stored
load_blog_posts(pf) == pf.content

\* a record file that exists and is not JSON
BadFile == [exists |-> TRUE, content |-> <<>>, corrupt |-> TRUE]

\* the exception open() or json.load raises for the file ("none": it loads)
LoadError(pf) ==
  IF ~pf.exists THEN "FileNotFoundError"
  ELSE IF "corrupt" \in DOMAIN pf THEN "JSONDecodeError"
  ELSE "none"

\* The file loads and every record has the key days_until_due; reading the
\* key of a record that lacks it raises KeyError.
Readable(pf) ==
  /\ LoadError(pf) = "none"
  /\ \A i \in DOMAIN load_blog_posts(pf) : "days_until_due" \in DOMAIN load_blog_posts(pf)[i]

\* ----------------------------------------------------- rendered reports
\* A report is modelled by its structure: the summary statistics, and the
\* date groups in the order they are written, each with its heading flag and
\* one item per record.  An item is the set of fields written for the
\* record, the title, the urgent styling and the notes excerpt (the text and
\* whether the marker "..." follows it).
HtmlNotesBudget == 150
TextNotesBudget == 100
MarkdownNotesBudget == 100

\* defaultdict(list) filled in one pass: a list per due date, in input order
posts_by_date(posts) ==
  [d \in {posts[i].due_date : i \in DOMAIN posts} |->
     SelectSeq(posts, LAMBDA p : p.due_date = d)]

\* sorted(): the elements of S in ascending order
RECURSIVE sorted(_)
sorted(S) ==
  IF S = {} THEN <<>>
  ELSE LET m == CHOOSE x \in S : \A y \in S : x <= y
       IN  <<m>> \o sorted(S \ {m})

\* the keys of the dict in insertion order
RECURSIVE keys(_)
keys(posts) ==
  IF posts = <<>> THEN <<>>
  ELSE LET before == keys(SubSeq(posts, 1, Len(posts) - 1))
           d == posts[Len(posts)].due_date
       IN  IF \E i \in DOMAIN before : before[i] = d THEN before
           ELSE Append(before, d)

\* the flag of a date heading, from the days between now and the date
HeadingFlag(days_until) ==
  IF days_until <= 1 THEN "URGENT"
  ELSE IF days_until <= 2 THEN "DUE SOON"
  ELSE "none"

NoExcerpt == [text |-> <<>>, ellipsis |-> FALSE]

\* notes[:budget] + '...' if len(notes) > budget else notes
Excerpt(notes, budget) ==
  IF Len(notes) > budget
  THEN [text |-> SubSeq(notes, 1, budget), ellipsis |-> TRUE]
  ELSE [text |-> notes, ellipsis |-> FALSE]

\* the fields written under the conditions shared by the HTML and the text
OptionalFields(post) ==
  (IF post.author # "Unassigned" THEN {"author"} ELSE {})
    \cup (IF post.category # "" THEN {"category"} ELSE {})
    \cup (IF post.word_count_target # 0 THEN {"word_count_target"} ELSE {})
    \cup (IF post.notes # <<>> THEN {"notes"} ELSE {})

\* (variant: the HTML counts as urgent the records due in less than 2 days)
HtmlStats_Strict(posts) ==
  [total |-> Len(posts),
   urgent |-> Cardinality({i \in DOMAIN posts : posts[i].days_until_due < 2}),
   not_started |-> Cardinality({i \in DOMAIN posts : posts[i].status = "Not Started"})]

HtmlStats(posts) ==
  [total |-> Len(posts),
   urgent |-> Cardinality({i \in DOMAIN posts : posts[i].days_until_due <= 2}),
   not_started |-> Cardinality({i \in DOMAIN posts : posts[i].status = "Not Started"})]

HtmlItem(post) ==
  [fields |-> {"title", "status", "priority", "days_until_due"}
                \cup OptionalFields(post),
   title |-> post.title,
   urgent |-> post.days_until_due <= 2,
   notes |-> IF post.notes # <<>> THEN Excerpt(post.notes, HtmlNotesBudget)
             ELSE NoExcerpt]

create_html_email(posts, now) ==
  LET dates == sorted(DOMAIN posts_by_date(posts))
  IN  [stats |-> HtmlStats(posts),
       groups |-> [k \in DOMAIN dates |->
                     [date |-> dates[k],
                      flag |-> HeadingFlag(dates[k] - now),
                      items |-> [j \in DOMAIN posts_by_date(posts)[dates[k]] |->
                                   HtmlItem(posts_by_date(posts)[dates[k]][j])]]]]

TextStats(posts) ==
  [total |-> Len(posts),
   urgent |-> Cardinality({i \in DOMAIN posts : posts[i].days_until_due <= 2}),
   not_started |-> Cardinality({i \in DOMAIN posts : posts[i].status = "Not Started"})]

TextItem(post) ==
  [fields |-> {"title", "status", "priority", "days_until_due"}
                \cup OptionalFields(post),
   title |-> post.title,
   urgent |-> FALSE,
   notes |-> IF post.notes # <<>> THEN Excerpt(post.notes, TextNotesBudget)
             ELSE NoExcerpt]

create_plain_text_email(posts, now) ==
  LET dates == sorted(DOMAIN posts_by_date(posts))
  IN  [stats |-> TextStats(posts),
       groups |-> [k \in DOMAIN dates |->
                     [date |-> dates[k],
                      flag |-> HeadingFlag(dates[k] - now),
                      items |-> [j \in DOMAIN posts_by_date(posts)[dates[k]] |->
                                   TextItem(posts_by_date(posts)[dates[k]][j])]]]]

\* the Markdown item: title, status, priority, the word target when set and
\* the notes, always followed by "..."
MarkdownItem(post) ==
  [fields |-> {"title", "status", "priority"}
                \cup (IF post.word_count_target # 0 THEN {"word_count_target"} ELSE {})
                \cup (IF post.notes # <<>> THEN {"notes"} ELSE {}),
   title |-> post.title,
   urgent |-> FALSE,
   notes |-> IF post.notes # <<>>
             THEN [text |-> SubSeq(post.notes, 1,
                                   IF Len(post.notes) > MarkdownNotesBudget
                                   THEN MarkdownNotesBudget ELSE Len(post.notes)),
                   ellipsis |-> TRUE]
             ELSE NoExcerpt]

\* (variant: the Markdown writes the dates in the order they first occur)
MarkdownDates_Unsorted(posts) == keys(posts)

\* the dates in the order the Markdown writes them
MarkdownDates(posts) == sorted(DOMAIN posts_by_date(posts))

example_6_create_markdown(posts) ==
  LET dates == MarkdownDates(posts)
  IN  [stats |-> [total |-> Len(posts)],
       groups |-> [k \in DOMAIN dates |->
                     [date |-> dates[k],
                      flag |-> "none",
                      items |-> [j \in DOMAIN posts_by_date(posts)[dates[k]] |->
                                   MarkdownItem(posts_by_date(posts)[dates[k]][j])]]]]

\* the CSV row: the fixed columns, written for every record
CsvRow(post) ==
  [fields |-> {"title", "due_date", "days_until_due", "status", "priority",
               "author", "category", "word_count_target"},
   title |-> post.title,
   urgent |-> FALSE,
   notes |-> NoExcerpt]

example_7_csv_export(posts) == [i \in DOMAIN posts |-> CsvRow(posts[i])]

NoReport == [stats |-> [total |-> 0], groups |-> <<>>]

\* email_formatter.main: load, render the HTML and the text; a missing file
\* is reported with the advice to run fetch_and_export.py first
formatter_main(pf, now) ==
  IF LoadError(pf) = "FileNotFoundError"
  THEN [printed |-> <<"not_found", "run_fetch_first">>, html |-> NoReport, text |-> NoReport]
  ELSE IF ~Readable(pf)
  THEN [printed |-> <<"error">>, html |-> NoReport, text |-> NoReport]
  ELSE [printed |-> <<"complete">>,
        html |-> create_html_email(load_blog_posts(pf), now),
        text |-> create_plain_text_email(load_blog_posts(pf), now)]

\* parse_blog_posts.main: load, write the Markdown report and the CSV
parser_main(pf) ==
  IF LoadError(pf) = "FileNotFoundError"
  THEN [printed |-> <<"not_found", "run_fetch_first">>, markdown |-> NoReport, csv |-> <<>>]
  ELSE IF ~Readable(pf)
  THEN [printed |-> <<"error">>, markdown |-> NoReport, csv |-> <<>>]
  ELSE [printed |-> <<"complete">>,
        markdown |-> example_6_create_markdown(load_blog_posts(pf)),
        csv |-> example_7_csv_export(load_blog_posts(pf))]

\* ------------------------------------------------------ message composition
\* A CC/BCC argument: None, one address string, or a list of addresses.
None == [kind |-> "none", str |-> "", list |-> <<>>]
Str(a) == [kind |-> "str", str |-> a, list |-> <<>>]
List(l) == [kind |-> "list", str |-> "", list |-> l]

\* Python truthiness of such an argument (None, "" and [] are falsy)
Truthy(x) == \/ x.kind = "str" /\ x.str # ""
             \/ x.kind = "list" /\ Len(x.list) > 0

CcInputs == {None, Str("c@x"), List(<<"c@x", "d@x">>)}
BccInputs == {None, Str("e@x"), List(<<"e@x", "f@x">>), List(<<>>)}
\* "" stands for an absent (or empty) subject: both are falsy
Subjects == {"", "Custom subject"}

Args(r, s, cc, bcc, tm) ==
  [recipient_email |-> r, subject |-> s, cc_emails |-> cc, bcc_emails |-> bcc,
   test_mode |-> tm]

urgent_count(posts) ==
  Cardinality({i \in DOMAIN posts : posts[i].days_until_due <= UrgentDays})

\* (variant: the urgent form is used whatever urgent_count is)
DefaultSubject_AlwaysUrgent(posts) ==
  [kind |-> "urgent", text |-> "", urgent |-> urgent_count(posts), total |-> Len(posts)]

DefaultSubject(posts) ==
  IF urgent_count(posts) > 0
  THEN [kind |-> "urgent", text |-> "", urgent |-> urgent_count(posts), total |-> Len(posts)]
  ELSE [kind |-> "total", text |-> "", urgent |-> 0, total |-> Len(posts)]

CcHeader(cc) == IF cc.kind = "list" THEN cc.list ELSE <<cc.str>>

\* The headers create_message sets.  names is the set of header names
\* present; Cc is meaningful only when "Cc" is among them.
MessageHeaders(a, posts, now) ==
  [names |-> {"Subject", "From", "To", "Date", "X-Priority", "X-Mailer"}
               \cup (IF Truthy(a.cc_emails) THEN {"Cc"} ELSE {}),
   Subject |-> IF a.subject = ""
               THEN DefaultSubject(posts)
               ELSE [kind |-> "custom", text |-> a.subject, urgent |-> 0, total |-> 0],
   From |-> <<SenderName, SenderEmail>>,
   To |-> <<a.recipient_email>>,
   Date |-> now,
   Cc |-> IF Truthy(a.cc_emails) THEN CcHeader(a.cc_emails) ELSE <<>>,
   XPriority |-> IF urgent_count(posts) > PriorityUrgent THEN "2" ELSE "3"]

NoHeaders ==
  [names |-> {}, Subject |-> [kind |-> "none", text |-> "", urgent |-> 0, total |-> 0],
   From |-> <<>>, To |-> <<>>, Date |-> 0, Cc |-> <<>>, XPriority |-> ""]

\* create_message: open() of a missing record file raises FileNotFoundError,
\* json.load of a file that is not JSON raises JSONDecodeError, counting the
\* urgent records raises KeyError when one has no days_until_due
create_message(a, pf, now) ==
  IF ~Readable(pf)
  THEN [ok |-> FALSE, posts |-> <<>>, headers |-> NoHeaders]
  ELSE [ok |-> TRUE, posts |-> load_blog_posts(pf),
        headers |-> MessageHeaders(a, load_blog_posts(pf), now)]

\* ------------------------------------------------------------ transmission
Extend(x) == IF ~Truthy(x) THEN <<>>
             ELSE IF x.kind = "list" THEN x.list ELSE <<x.str>>

\* (variant: the BCC addresses are left out of the recipient list)
Recipients_NoBcc(a) == <<a.recipient_email>> \o Extend(a.cc_emails)

\* the recipient list passed to server.send_message
Recipients(a) == <<a.recipient_email>> \o Extend(a.cc_emails) \o Extend(a.bcc_emails)

\* The server's behaviour in one session.  fail names the call that raises:
\* "connect" (SMTP()), "starttls", "auth" (login raises
\* SMTPAuthenticationError), "login" (login raises anything else),
\* "send_message", or "none".  quit_ok = FALSE: the reply to the QUIT that
\* leaving the with block sends is not 221, so SMTP.__exit__ raises
\* SMTPResponseException.
Fails == {"none", "connect", "starttls", "auth", "login", "send_message"}
Envs == {[fail |-> f, quit_ok |-> TRUE] : f \in Fails}
          \cup {[fail |-> f, quit_ok |-> FALSE] : f \in {"none", "auth"}}

\* one call on the transport and how it ended: "ok", "auth_error"
\* (SMTPAuthenticationError) or "error" (any other exception)
Ev(op, res) == [op |-> op, res |-> res]

\* (variant: login and send on the session as connected, without starttls)
SessionOnce_NoStarttls(env) ==
  IF env.fail = "connect" THEN <<Ev("connect", "error")>>
  ELSE <<Ev("connect", "ok")>>
       \o (IF env.fail = "auth" THEN <<Ev("login", "auth_error")>>
           ELSE IF env.fail = "login" THEN <<Ev("login", "error")>>
           ELSE <<Ev("login", "ok"),
                  Ev("send_message",
                     IF env.fail = "send_message" THEN "error" ELSE "ok")>>)
       \o <<Ev("quit", IF env.quit_ok THEN "ok" ELSE "error")>>

\* The calls made on the transport in one session (the with block), in
\* order; leaving the block, normally or by an exception, sends QUIT.
SessionOnce(env) ==
  IF env.fail = "connect" THEN <<Ev("connect", "error")>>
  ELSE <<Ev("connect", "ok")>>
       \o (IF env.fail = "starttls" THEN <<Ev("starttls", "error")>>
           ELSE <<Ev("starttls", "ok")>>
                \o (IF env.fail = "auth" THEN <<Ev("login", "auth_error")>>
                    ELSE IF env.fail = "login" THEN <<Ev("login", "error")>>
                    ELSE <<Ev("login", "ok"),
                           Ev("send_message",
                              IF env.fail = "send_message" THEN "error" ELSE "ok")>>))
       \o <<Ev("quit", IF env.quit_ok THEN "ok" ELSE "error")>>

\* (variant: a failed session is tried a second time)
SessionEvents_Retry(env) ==
  IF env.fail # "none" THEN SessionOnce(env) \o SessionOnce(env) ELSE SessionOnce(env)

\* The calls made on the transport by one send_email: one session.
SessionEvents(env) == SessionOnce(env)

\* send_message returned: the transport accepted the message
Accepted(events) == \E i \in DOMAIN events : events[i] = Ev("send_message", "ok")

\* (variant: every exception raised by login is taken for a rejected login)
Raised_LoginIsAuth(env) ==
  IF env.fail = "connect" THEN "other"
  ELSE IF ~env.quit_ok THEN "other"
  ELSE IF env.fail \in {"auth", "login"} THEN "auth"
  ELSE IF env.fail = "none" THEN "none"
  ELSE "other"

\* The exception that leaves the try block: an exception raised by __exit__
\* replaces the one in flight.
Raised(env) ==
  IF env.fail = "connect" THEN "other"
  ELSE IF ~env.quit_ok THEN "other"
  ELSE IF env.fail = "auth" THEN "auth"
  ELSE IF env.fail = "none" THEN "none"
  ELSE "other"

LogEntry(recipient, post_count, now) ==
  [timestamp |-> now, recipient |-> recipient, post_count |-> post_count,
   sender |-> SenderEmail]

\* (variant: the log is written afresh instead of extended)
_log_send_Overwrite(lf, recipient, post_count, now) ==
  File(<<LogEntry(recipient, post_count, now)>>)

_log_send(lf, recipient, post_count, now) ==
  LET log == IF lf.exists THEN lf.content ELSE <<>>
  IN  File(Append(log, LogEntry(recipient, post_count, now)))

\* (variant: the test_mode argument is ignored)
TestMode_Ignored(a) == FALSE

\* the test of test_mode that ends send_email before any transmission
TestMode(a) == a.test_mode

\* One call of send_email: the record of what it did, and the log file after.
send_email(a, pf, lf, now, env) ==
  LET m == create_message(a, pf, now)
      base == [args |-> a, now |-> now, composed |-> m.ok, posts |-> m.posts,
               headers |-> m.headers, events |-> <<>>, to_addrs |-> <<>>,
               result |-> FALSE, printed |-> <<>>,
               log_before |-> lf, log_after |-> lf]
  IN  IF ~m.ok
      THEN [base EXCEPT !.printed = <<"error">>]
      ELSE IF TestMode(a)
      THEN [base EXCEPT !.result = TRUE, !.printed = <<"test">>]
      ELSE LET ev == SessionEvents(env)
               lf2 == IF Accepted(ev)
                      THEN _log_send(lf, a.recipient_email, Len(m.posts), now)
                      ELSE lf
           IN  [base EXCEPT
                  !.events = ev,
                  !.to_addrs = IF \E i \in DOMAIN ev : ev[i].op = "send_message"
                               THEN Recipients(a) ELSE <<>>,
                  !.log_after = lf2,
                  !.result = (Raised(env) = "none"),
                  !.printed = (IF Accepted(ev) THEN <<"sent">> ELSE <<>>)
                              \o (IF Raised(env) = "auth" THEN <<"auth">>
                                  ELSE IF Raised(env) = "other" THEN <<"error">>
                                  ELSE <<>>)]

\* (variant: the loop ends at the first failed send)
RECURSIVE SendLoop_AbortOnFailure(_, _, _, _, _, _, _, _)
SendLoop_AbortOnFailure(recipients, subject, i, pf, lf, now, envs, acc) ==
  IF i > Len(recipients) THEN acc
  ELSE LET c == send_email(Args(recipients[i], subject, None, None, FALSE),
                           pf, lf, now, envs[i])
           acc2 == [successful |-> IF c.result THEN Append(acc.successful, recipients[i])
                                   ELSE acc.successful,
                    failed |-> IF c.result THEN acc.failed
                               ELSE Append(acc.failed, recipients[i]),
                    attempts |-> Append(acc.attempts, c.args.recipient_email),
                    results |-> Append(acc.results, c.result),
                    log |-> c.log_after]
       IN  IF c.result
           THEN SendLoop_AbortOnFailure(recipients, subject, i + 1, pf, c.log_after,
                                        now, envs, acc2)
           ELSE acc2

\* send_to_multiple: the loop over recipients, from index i on
RECURSIVE SendLoop(_, _, _, _, _, _, _, _)
SendLoop(recipients, subject, i, pf, lf, now, envs, acc) ==
  IF i > Len(recipients) THEN acc
  ELSE LET c == send_email(Args(recipients[i], subject, None, None, FALSE),
                           pf, lf, now, envs[i])
       IN  SendLoop(recipients, subject, i + 1, pf, c.log_after, now, envs,
                    [successful |-> IF c.result THEN Append(acc.successful, recipients[i])
                                    ELSE acc.successful,
                     failed |-> IF c.result THEN acc.failed
                                ELSE Append(acc.failed, recipients[i]),
                     attempts |-> Append(acc.attempts, c.args.recipient_email),
                     results |-> Append(acc.results, c.result),
                     log |-> c.log_after])

send_to_multiple(recipients, subject, pf, lf, now, envs) ==
  SendLoop(recipients, subject, 1, pf, lf, now, envs,
           [successful |-> <<>>, failed |-> <<>>, attempts |-> <<>>,
            results |-> <<>>, log |-> lf])

\* ----------------------------------------------------------------- state
\* today, posts_file (blog_posts_due.json) and log_file (email_send_log.json)
\* persist between runs.  calls holds the record of the send_email call of
\* the running process, multi what send_to_multiple returned in it; both are
\* gone when the process exits.
NoMulti ==
  [returned |-> FALSE, recipients |-> <<>>, attempts |-> <<>>, results |-> <<>>,
   successful |-> <<>>, failed |-> <<>>]

LogLen(lf) == Len(lf.content)

\* no run of the fetcher, the formatter or the parser is recorded
NoRun == [kind |-> "none"]

Idle == calls = <<>> /\ ~multi.returned /\ run = NoRun

Init ==
  /\ today = 0
  /\ posts_file = NoFile
  /\ log_file = NoFile
  /\ calls = <<>>
  /\ multi = NoMulti
  /\ run = NoRun

\* The replies of the records source to one request made today.
Replies(now) ==
  {Reply(e, <<>>) : e \in RequestFailures}
    \cup {Reply("none", s) : s \in SourceReplies(now)}

\* fetch_and_export.main: fetch, export when the result is not empty
FetchAndExport ==
  /\ Idle
  /\ \E reply \in Replies(today) :
       LET r == fetch_and_export(FetcherEnv("key", "base"), reply, posts_file, today)
       IN  /\ run' = r
           /\ posts_file' = r.file_after
  /\ UNCHANGED <<today, log_file, calls, multi>>

\* a day passes between runs
Tick ==
  /\ Idle
  /\ today < MaxDay
  /\ today' = today + 1
  /\ UNCHANGED <<posts_file, log_file, calls, multi, run>>

\* The argument lists tried: every recipient, subject and mode without
\* CC/BCC, and every CC/BCC shape for one recipient.
CallArgs ==
  {Args(r, s, None, None, tm) : r \in Addrs, s \in Subjects, tm \in BOOLEAN}
    \cup {Args("a@x", "", cc, bcc, FALSE) : cc \in CcInputs, bcc \in BccInputs}

\* The behaviours of the server that matter to a call: no session is opened
\* in test mode or when the record file is missing.
ServerFor(test_mode) ==
  IF test_mode \/ ~Readable(posts_file) THEN {[fail |-> "none", quit_ok |-> TRUE]} ELSE Envs

\* one run that calls send_email (interactive_send, the test mode of main,
\* or a caller of the class)
SendEmail ==
  /\ Idle
  /\ \E a \in CallArgs : \E env \in ServerFor(a.test_mode) :
       LET c == send_email(a, posts_file, log_file, today, env)
       IN  /\ LogLen(c.log_after) <= MaxLog
           /\ calls' = <<c>>
           /\ log_file' = c.log_after
  /\ UNCHANGED <<today, posts_file, multi, run>>

MultiEnvs == {e \in Envs : e.quit_ok /\ e.fail \in {"none", "auth", "send_message"}}

\* The recipient lists tried (GMAIL_AUTO_RECIPIENTS): addresses may repeat;
\* the first is fixed, the addresses being interchangeable.
RecipientLists ==
  {l \in SeqsUpTo(Addrs, MaxRecipients) : l # <<>> /\ l[1] = "a@x"}

\* automated_send: send_to_multiple over the configured recipients
SendToMultiple ==
  /\ Idle
  /\ \E recipients \in RecipientLists :
       \E envs \in [1 .. Len(recipients) -> ServerFor(FALSE) \cap MultiEnvs] :
         LET r == send_to_multiple(recipients, "", posts_file, log_file, today, envs)
         IN  /\ LogLen(r.log) <= MaxLog
             /\ log_file' = r.log
             /\ multi' = [returned |-> TRUE, recipients |-> recipients,
                          attempts |-> r.attempts, results |-> r.results,
                          successful |-> r.successful, failed |-> r.failed]
  /\ UNCHANGED <<today, posts_file, calls, run>>

\* the process ends
Exit ==
  /\ ~Idle
  /\ calls' = <<>>
  /\ multi' = NoMulti
  /\ run' = NoRun
  /\ UNCHANGED <<today, posts_file, log_file>>

Next == FetchAndExport \/ Tick \/ SendEmail \/ SendToMultiple \/ Exit

\* the pipeline over several days
Spec == Init /\ [][Next]_vars

\* the runs of one day: fetch, then any number of sends
NextSend == FetchAndExport \/ SendEmail \/ SendToMultiple \/ Exit

SpecSend == Init /\ [][NextSend]_vars

\* --------------------------------------------- the reports of a record file
\* the empty dict
NoFields == [k \in {} |-> 0]

NoteLengths == {50, 100, 101, 150, 151}

\* Raw records that differ in title, due date and status: the inputs of the
\* grouping and of the statistics.
GroupRaws ==
  {[id |-> t, fields |-> ("Title" :> t) @@ ("Due Date" :> d) @@ st] :
     t \in {"A", "B"}, d \in 1 .. MaxReportAhead,
     st \in {NoFields, "Status" :> "Draft"}}

\* Raw records that differ in the optional fields: the inputs of the items.
ItemRaws ==
  {[id |-> "rec", fields |-> ("Title" :> "A") @@ ("Due Date" :> 1) @@ a @@ c @@ w @@ n] :
     a \in {NoFields, "Author" :> "Ann"},
     c \in {NoFields, "Category" :> "Tech"},
     w \in {NoFields, "Word Count Target" :> 500},
     n \in {NoFields} \cup {"Notes" :> Text(l) : l \in NoteLengths}}

\* The record files rendered: none, one that is not JSON, and the files
\* holding the canonical records of raw records normalized on day 0, in any
\* order.
ReportFiles ==
  {NoFile, BadFile}
    \cup {File(_process_records(raws, 0)) :
            raws \in (SeqsUpTo(GroupRaws, MaxReportPosts) \ {<<>>})
                       \cup {<<r>> : r \in ItemRaws}}

InitReport ==
  /\ today \in 0 .. MaxDay
  /\ posts_file \in ReportFiles
  /\ log_file = NoFile
  /\ calls = <<>>
  /\ multi = NoMulti
  /\ run = NoRun

\* The programs that read the record file, run on the same file: the
\* formatter (email_formatter.main), the parser (parse_blog_posts.main) and
\* the sender in test mode (gmail_sender.main, mode test).
Report ==
  /\ Idle
  /\ \E s \in Subjects :
       run' = [kind |-> "report", subject |-> s,
               formatter |-> formatter_main(posts_file, today),
               parser |-> parser_main(posts_file),
               send |-> send_email(Args("a@x", s, None, None, TRUE), posts_file,
                                   log_file, today, [fail |-> "none", quit_ok |-> TRUE])]
  /\ UNCHANGED <<today, posts_file, log_file, calls, multi>>

NextReport == Report \/ Exit

\* every report of every record file
SpecReport == InitReport /\ [][NextReport]_vars

\* ------------------------------------------ the runs and their environment
\* The environment of the sender; "" is an unset (or empty) variable.
SenderEnv(email, password) ==
  [GMAIL_SENDER_EMAIL |-> email, GMAIL_APP_PASSWORD |-> password]

\* (variant: only the sender address is required)
GmailSender_EmailOnly(env) == env.GMAIL_SENDER_EMAIL # ""

\* GmailSender.__init__ returns (TRUE) or raises ValueError (FALSE)
GmailSender(env) == env.GMAIL_SENDER_EMAIL # "" /\ env.GMAIL_APP_PASSWORD # ""

FetcherEnvs == {FetcherEnv(k, b) : k \in {"", "key"}, b \in {"", "base"}}
SenderEnvs == {SenderEnv(e, p) : e \in {"", SenderEmail}, p \in {"", "app password"}}

\* a raw record with every field
FullFields ==
  ("Title" :> "A") @@ ("Due Date" :> 1) @@ ("Status" :> "Draft")
    @@ ("Author" :> "Ann") @@ ("Category" :> "Tech") @@ ("Notes" :> Text(3))
    @@ ("Word Count Target" :> 500) @@ ("Priority" :> "High")

FullRecord == [id |-> "full", fields |-> FullFields]

\* Raw records with all the fields, none, exactly one, all but one; without
\* the key fields; without id.
EntryRaws ==
  {[id |-> "rec", fields |-> [k \in S |-> FullFields[k]]] :
     S \in {DOMAIN FullFields, {}}
             \cup {{k} : k \in DOMAIN FullFields}
             \cup {DOMAIN FullFields \ {k} : k \in DOMAIN FullFields}}
    \cup {[id |-> "rec"], [fields |-> FullFields]}

\* The replies to the request of a fetcher: none is used when the fetcher
\* cannot be constructed.
EntryReplies(env) ==
  IF ~AirtableBlogFetcher(env) THEN {Reply("none", <<>>)}
  ELSE {Reply(e, <<>>) : e \in RequestFailures}
         \cup {Reply("none", <<>>)}
         \cup {Reply("none", <<r>>) : r \in EntryRaws}
         \cup {Reply("none", <<FullRecord, r>>) : r \in EntryRaws}
         \cup {Reply("none", <<r, FullRecord>>) : r \in EntryRaws}

\* airtable_blog_fetcher.main in any environment
FetcherMain ==
  /\ Idle
  /\ \E env \in FetcherEnvs : \E reply \in EntryReplies(env) :
       \E export_choice \in {"y", "n"} :
         LET r == fetcher_main(env, reply, posts_file, today, export_choice)
         IN  /\ run' = r
             /\ posts_file' = r.file_after
  /\ UNCHANGED <<today, log_file, calls, multi>>

\* automated_send in any environment, with one configured recipient: the
\* sender is constructed first; send_to_multiple then opens one session per
\* message it could compose.
AutomatedSend ==
  /\ Idle
  /\ \E env \in SenderEnvs :
       IF ~GmailSender(env)
       THEN /\ run' = [kind |-> "send", env |-> env, constructed |-> FALSE,
                       sessions |-> 0, printed |-> <<"error">>]
            /\ UNCHANGED <<log_file, multi>>
       ELSE \E server \in ServerFor(FALSE) \cap MultiEnvs :
              LET r == send_to_multiple(<<"a@x">>, "", posts_file, log_file, today,
                                        <<server>>)
                  c == send_email(Args("a@x", "", None, None, FALSE), posts_file,
                                  log_file, today, server)
              IN  /\ LogLen(r.log) <= MaxLog
                  /\ log_file' = r.log
                  /\ multi' = [returned |-> TRUE, recipients |-> <<"a@x">>,
                               attempts |-> r.attempts, results |-> r.results,
                               successful |-> r.successful, failed |-> r.failed]
                  /\ run' = [kind |-> "send", env |-> env, constructed |-> TRUE,
                             sessions |-> IF c.events # <<>> THEN 1 ELSE 0,
                             printed |-> <<>>]
  /\ UNCHANGED <<today, posts_file, calls>>

NextEntry == FetcherMain \/ AutomatedSend \/ Exit

\* the runs of the fetcher and of the sender in every environment
SpecEntry == Init /\ [][NextEntry]_vars

\* ================================================================ claims
Range(q) == {q[i] : i \in DOMAIN q}

\* the positions of recipients whose send returned b, in list order
RECURSIVE Picked(_, _, _)
Picked(recipients, results, b) ==
  IF recipients = <<>> THEN <<>>
  ELSE (IF Head(results) = b THEN <<Head(recipients)>> ELSE <<>>)
       \o Picked(Tail(recipients), Tail(results), b)

\* the addresses a CC/BCC argument names
AddressesOf(x) ==
  CASE x.kind = "none" -> <<>>
    [] x.kind = "str" -> IF x.str = "" THEN <<>> ELSE <<x.str>>
    [] x.kind = "list" -> x.list

HasEvent(c, op) == \E i \in DOMAIN c.events : c.events[i].op = op
AuthFailure(c) == \E i \in DOMAIN c.events : c.events[i].res = "auth_error"
TransportFailure(c) == \E i \in DOMAIN c.events : c.events[i].res = "error"
Delivered(c) == Accepted(c.events)
Appended(c) ==
  /\ c.log_after.exists
  /\ Len(c.log_after.content) = Len(c.log_before.content) + 1
  /\ SubSeq(c.log_after.content, 1, Len(c.log_before.content)) = c.log_before.content
  /\ LET e == c.log_after.content[Len(c.log_after.content)]
     IN  /\ e.recipient = c.args.recipient_email
         /\ e.post_count = Len(posts_file.content)
         /\ e.sender = SenderEmail
         /\ e.timestamp = today

\* C1: send_to_multiple attempts a send for every recipient of its list, in
\* list order, also after a failed send, and returns every recipient in
\* exactly one of successful and failed: in successful when its own send
\* returned success, in failed otherwise.
C1_EveryRecipientAttempted ==
  multi.returned =>
    /\ multi.attempts = multi.recipients
    /\ Len(multi.results) = Len(multi.recipients)
    /\ multi.successful = Picked(multi.recipients, multi.results, TRUE)
    /\ multi.failed = Picked(multi.recipients, multi.results, FALSE)
    /\ Len(multi.successful) + Len(multi.failed) = Len(multi.recipients)

\* three recipients, the second fails, the third is sent and succeeds
C1_Witness ==
  /\ multi.returned
  /\ multi.recipients = <<"a@x", "b@x", "a@x">>
  /\ multi.results = <<TRUE, FALSE, TRUE>>
  /\ multi.failed = <<"b@x">>

\* C2: a send_email call in which an authentication error or any other
\* transport error occurred leaves the send log as it was and returns
\* failure.
C2_FailedSendLeavesLog ==
  \A i \in DOMAIN calls :
    (AuthFailure(calls[i]) \/ TransportFailure(calls[i]))
      => /\ calls[i].log_after = calls[i].log_before
         /\ calls[i].result = FALSE

\* C3: when the transport accepts the message of a non-test send_email call,
\* exactly one entry (recipient, record count, sender, timestamp) is appended
\* to the send log, the log file exists afterwards, and the call returns
\* success.
C3_DeliveredIsLoggedAndReported ==
  \A i \in DOMAIN calls :
    (~calls[i].args.test_mode /\ Delivered(calls[i]))
      => /\ Appended(calls[i])
         /\ calls[i].result = TRUE

\* the value send_email returns when the login is rejected, all else equal
AuthFailureResult(c) ==
  send_email(c.args, posts_file, c.log_before, c.now,
             [fail |-> "auth", quit_ok |-> TRUE]).result

\* C4 (as claimed): the value send_email returns tells the three outcomes
\* apart: a call that ends in a transport failure or in a delivery does not
\* return the value an authentication failure returns.
C4_OutcomesDistinct ==
  \A i \in DOMAIN calls :
    (HasEvent(calls[i], "connect") /\ ~AuthFailure(calls[i]))
      => calls[i].result # AuthFailureResult(calls[i])

\* C4 (amended): send_email returns TRUE only when the transport accepted
\* the message (or in test mode) and FALSE for an authentication failure and
\* for a transport failure alike; the two kinds of failure differ only in the
\* diagnostic printed: the credential guidance is printed only after a
\* rejected login, the generic error after any other failure.
C4_BooleanOutcome ==
  \A i \in DOMAIN calls :
    LET c == calls[i]
    IN  /\ c.result \in BOOLEAN
        /\ AuthFailure(c) => c.result = FALSE
        /\ TransportFailure(c) => c.result = FALSE
        /\ (AuthFailure(c) \/ TransportFailure(c))
             => c.result = AuthFailureResult(c)
        /\ c.result = TRUE => (c.args.test_mode \/ Delivered(c))
        /\ (\E j \in DOMAIN c.printed : c.printed[j] = "auth") => AuthFailure(c)
        /\ TransportFailure(c) => c.printed[Len(c.printed)] = "error"

\* a login that failed for another reason than rejected credentials
C4_Witness ==
  /\ calls # <<>>
  /\ \E j \in DOMAIN calls[1].events : calls[1].events[j] = Ev("login", "error")
  /\ calls[1].result = FALSE
  /\ calls[1].printed = <<"error">>

\* C5: a test-mode send_email composes the message (records loaded, headers
\* built), makes no call on the transport, leaves the send log as it was and
\* returns success.
C5_TestModeDryRun ==
  \A i \in DOMAIN calls :
    LET c == calls[i]
    IN  c.args.test_mode =>
          /\ c.events = <<>>
          /\ c.to_addrs = <<>>
          /\ c.log_after = c.log_before
          /\ log_file = c.log_before
          /\ c.composed =>
               /\ c.result = TRUE
               /\ c.posts = posts_file.content
               /\ {"Subject", "From", "To"} \subseteq c.headers.names
               /\ c.headers.To = <<c.args.recipient_email>>

C5_Witness ==
  /\ calls # <<>>
  /\ calls[1].args.test_mode
  /\ calls[1].composed
  /\ calls[1].result = TRUE
  /\ log_file.exists
  /\ calls[1].events = <<>>

\* C6: the send log only grows at its end: every step keeps the entries the
\* log had, unchanged and in place, and never removes the file.
C6_LogAppendOnly ==
  [][/\ IsPrefix(log_file.content, log_file'.content)
     /\ log_file.exists => log_file'.exists]_vars

\* an entry was appended to a log that already had one
C6_Witness ==
  /\ calls # <<>>
  /\ Len(calls[1].log_before.content) >= 1
  /\ Len(log_file.content) = Len(calls[1].log_before.content) + 1

\* C7: the days_until_due of every record the sender uses equals
\* due_date - (the day of the load), whatever day the record was fetched.
C7_DaysRecomputedAtLoad ==
  \A i \in DOMAIN calls :
    calls[i].composed =>
      \A k \in DOMAIN calls[i].posts :
        calls[i].posts[k].days_until_due = calls[i].posts[k].due_date - calls[i].now

\* C8: one send_email call opens at most one session and hands the message
\* to the transport at most once; after a call on the transport has failed,
\* the only further call is the QUIT that closes the session.
C8_SingleAttempt ==
  \A i \in DOMAIN calls :
    LET ev == calls[i].events
    IN  /\ Cardinality({j \in DOMAIN ev : ev[j].op = "connect"}) <= 1
        /\ Cardinality({j \in DOMAIN ev : ev[j].op = "send_message"}) <= 1
        /\ \A j \in DOMAIN ev : \A k \in DOMAIN ev :
             (j < k /\ ev[j].res # "ok") => ev[k].op = "quit"

\* a send that failed and was not repeated
C8_Witness ==
  /\ calls # <<>>
  /\ \E j \in DOMAIN calls[1].events : calls[1].events[j] = Ev("send_message", "error")
  /\ calls[1].result = FALSE

\* C9: whenever send_email hands the message to the transport, the session
\* was upgraded by a successful starttls and then authenticated by a
\* successful login before.
C9_SecureBeforeSend ==
  \A i \in DOMAIN calls :
    LET ev == calls[i].events
    IN  \A m \in DOMAIN ev :
          ev[m].op = "send_message" =>
            \E j \in DOMAIN ev : \E k \in DOMAIN ev :
              /\ j < k /\ k < m
              /\ ev[j] = Ev("starttls", "ok")
              /\ ev[k] = Ev("login", "ok")
              /\ \A n \in DOMAIN ev : (n < j) => ev[n] = Ev("connect", "ok")

C9_Witness ==
  /\ calls # <<>>
  /\ Delivered(calls[1])
  /\ calls[1].result = TRUE

\* the addresses in the headers of a composed message
HeaderAddresses(h) == Range(h.From) \cup Range(h.To) \cup Range(h.Cc)

\* C10: for CC and BCC each absent, one address or a list, the recipient
\* list handed to the transport is the primary recipient, then the CC
\* addresses, then the BCC addresses; the composed message has no Bcc header
\* and no BCC address in a header.
C10_RecipientsAndBlindCopies ==
  \A i \in DOMAIN calls :
    LET c == calls[i]
    IN  /\ HasEvent(c, "send_message") =>
             c.to_addrs = <<c.args.recipient_email>> \o AddressesOf(c.args.cc_emails)
                            \o AddressesOf(c.args.bcc_emails)
        /\ c.composed =>
             /\ "Bcc" \notin c.headers.names
             /\ Range(AddressesOf(c.args.bcc_emails)) \cap HeaderAddresses(c.headers) = {}
             /\ c.headers.Cc = AddressesOf(c.args.cc_emails)

C10_Witness ==
  /\ calls # <<>>
  /\ Delivered(calls[1])
  /\ calls[1].args.cc_emails = Str("c@x")
  /\ calls[1].args.bcc_emails = List(<<"e@x", "f@x">>)
  /\ calls[1].to_addrs = <<"a@x", "c@x", "e@x", "f@x">>

\* the number of records of a sequence that are due within two days
DueWithinTwo(posts) ==
  Cardinality({i \in DOMAIN posts : posts[i].days_until_due <= 2})

\* C11: the subject of the composed message is the subject the caller
\* supplies, whatever urgent_count is; without one it is the urgent form,
\* carrying urgent_count and the total, when urgent_count > 0, and the
\* total-only form when urgent_count = 0.
C11_SubjectRule ==
  (run.kind = "report" /\ run.send.composed) =>
    LET posts == run.send.posts
        subject == run.send.headers.Subject
    IN  IF run.subject # ""
        THEN subject.kind = "custom" /\ subject.text = run.subject
        ELSE IF DueWithinTwo(posts) > 0
        THEN /\ subject.kind = "urgent"
             /\ subject.urgent = DueWithinTwo(posts)
             /\ subject.total = Len(posts)
        ELSE subject.kind = "total" /\ subject.total = Len(posts)

\* no subject supplied, two records of which none is due within two days:
\* the total-only form
C11_Witness ==
  /\ run.kind = "report"
  /\ run.subject = ""
  /\ run.send.composed
  /\ Len(run.send.posts) = 2
  /\ DueWithinTwo(run.send.posts) = 0
  /\ run.send.headers.Subject.kind = "total"

\* C12: a transport or authentication failure of the request made by
\* get_posts_due_this_week does not leave it as an exception: it is caught
\* and reported, and the fetch returns the empty record sequence.
C12_FetchFailureDegrades ==
  (run.kind = "fetch" /\ run.requests > 0 /\ run.reply.error # "none") =>
    /\ run.fetch.raised = "none"
    /\ run.fetch.printed = <<"fetch_error">>
    /\ run.fetch.posts = <<>>

\* the request is refused (HTTP 401): raise_for_status raises HTTPError
C12_Witness ==
  /\ run.kind = "fetch"
  /\ run.requests = 1
  /\ run.reply.error = "HTTPError"
  /\ run.fetch.raised = "none"
  /\ run.posts = <<>>

\* the fields of a raw record (none when it has no key fields)
FieldsOf(record) == IF "fields" \in DOMAIN record THEN record.fields ELSE NoFields

\* the canonical value of a field: the raw value when the raw record has the
\* field, the documented value otherwise
Documented(record, field, value) ==
  IF field \in DOMAIN FieldsOf(record) THEN FieldsOf(record)[field] ELSE value

\* C13: for every raw record, whatever fields it has or lacks, the fetch
\* yields one canonical record with the documented value for every missing
\* field (title Untitled, status Not Started, author Unassigned, category
\* and notes empty, word_count_target 0, priority Medium, due_date absent and
\* then no days_until_due), and no record makes the fetch fail.
C13_DefaultsForMissingFields ==
  (run.kind = "fetch" /\ run.requests > 0 /\ run.reply.error = "none") =>
    /\ run.fetch.raised = "none"
    /\ Len(run.posts) = Len(run.reply.records)
    /\ \A i \in DOMAIN run.reply.records :
         LET r == run.reply.records[i]
             p == run.posts[i]
         IN  /\ p.title = Documented(r, "Title", "Untitled")
             /\ p.status = Documented(r, "Status", "Not Started")
             /\ p.author = Documented(r, "Author", "Unassigned")
             /\ p.category = Documented(r, "Category", "")
             /\ p.notes = Documented(r, "Notes", <<>>)
             /\ p.word_count_target = Documented(r, "Word Count Target", 0)
             /\ p.priority = Documented(r, "Priority", "Medium")
             /\ IF "Due Date" \in DOMAIN FieldsOf(r)
                THEN /\ p.due_date = FieldsOf(r)["Due Date"]
                     /\ "days_until_due" \in DOMAIN p
                     /\ p.days_until_due = p.due_date - today
                ELSE /\ p.due_date = NoDate
                     /\ "days_until_due" \notin DOMAIN p

\* a complete record followed by a record that has a title and nothing else
C13_Witness ==
  /\ run.kind = "fetch"
  /\ run.reply.error = "none"
  /\ Len(run.reply.records) = 2
  /\ DOMAIN FieldsOf(run.reply.records[2]) = {"Title"}
  /\ Len(run.posts) = 2
  /\ run.posts[2].author = "Unassigned"
  /\ "days_until_due" \notin DOMAIN run.posts[2]
  /\ "days_until_due" \in DOMAIN run.posts[1]

\* C14: for every record set the summary statistics (total, urgent_count =
\* the number of records with days_until_due <= 2, not_started_count) of the
\* HTML report, of the plain-text report and the ones the sender uses for
\* the subject and the priority header are the same numbers.
C14_SameStatistics ==
  (run.kind = "report" /\ run.send.composed) =>
    LET posts == run.send.posts
        html == run.formatter.html.stats
        text == run.formatter.text.stats
        headers == run.send.headers
    IN  /\ run.formatter.printed = <<"complete">>
        /\ html = text
        /\ html.total = Len(posts)
        /\ html.urgent = DueWithinTwo(posts)
        /\ html.not_started =
             Cardinality({i \in DOMAIN posts : posts[i].status = "Not Started"})
        /\ headers.Subject.kind = "urgent" =>
             headers.Subject.urgent = html.urgent /\ headers.Subject.total = html.total
        /\ headers.Subject.kind = "total" =>
             html.urgent = 0 /\ headers.Subject.total = html.total
        /\ headers.XPriority = "2" <=> html.urgent > 5

\* two records, one due within two days and one not started: both reports
\* and the subject count one urgent record of two
C14_Witness ==
  /\ run.kind = "report"
  /\ run.send.composed
  /\ run.formatter.html.stats = [total |-> 2, urgent |-> 1, not_started |-> 1]
  /\ run.formatter.text.stats = [total |-> 2, urgent |-> 1, not_started |-> 1]
  /\ run.send.headers.Subject.kind = "urgent"
  /\ run.send.headers.Subject.urgent = 1
  /\ run.send.headers.Subject.total = 2

\* the date groups of a report as written: each date with the titles under it
Outline(report) ==
  [k \in DOMAIN report.groups |->
     [date |-> report.groups[k].date,
      titles |-> [j \in DOMAIN report.groups[k].items |->
                    report.groups[k].items[j].title]]]

\* the titles of the records due on date d, in the order of the sequence
TitlesDue(posts, d) ==
  LET due == SelectSeq(posts, LAMBDA p : p.due_date = d)
  IN  [j \in DOMAIN due |-> due[j].title]

\* C15: for every record sequence the HTML, the plain-text and the Markdown
\* report present the same date groups in ascending order of due date, and
\* in each group the records in the order in which they were supplied.
C15_SameGroupsSameOrder ==
  (run.kind = "report" /\ run.parser.printed = <<"complete">>) =>
    LET posts == load_blog_posts(posts_file)
        html == Outline(run.formatter.html)
        text == Outline(run.formatter.text)
        markdown == Outline(run.parser.markdown)
    IN  /\ html = text
        /\ text = markdown
        /\ {markdown[k].date : k \in DOMAIN markdown}
             = {posts[i].due_date : i \in DOMAIN posts}
        /\ \A k \in DOMAIN markdown : \A l \in DOMAIN markdown :
             k < l => markdown[k].date < markdown[l].date
        /\ \A k \in DOMAIN markdown :
             markdown[k].titles = TitlesDue(posts, markdown[k].date)

\* B due on day 2 is supplied before A due on day 1: every report has the
\* group of day 1 with A first, then the group of day 2 with B
C15_Witness ==
  /\ run.kind = "report"
  /\ Len(load_blog_posts(posts_file)) = 2
  /\ load_blog_posts(posts_file)[1].title = "B"
  /\ load_blog_posts(posts_file)[1].due_date = 2
  /\ load_blog_posts(posts_file)[2].due_date = 1
  /\ Outline(run.parser.markdown)
       = <<[date |-> 1, titles |-> <<"A">>], [date |-> 2, titles |-> <<"B">>]>>
  /\ Outline(run.formatter.html) = Outline(run.parser.markdown)

\* the record behind the j-th item of the group of date d
ItemPost(posts, d, j) == SelectSeq(posts, LAMBDA p : p.due_date = d)[j]

\* every notes excerpt of a report is the first budget characters of the
\* notes, followed by the marker exactly when the notes are longer
ExcerptWithin(posts, report, budget) ==
  \A k \in DOMAIN report.groups : \A j \in DOMAIN report.groups[k].items :
    LET notes == ItemPost(posts, report.groups[k].date, j).notes
        shown == report.groups[k].items[j].notes
    IN  /\ shown.text = SubSeq(notes, 1, IF Len(notes) > budget THEN budget ELSE Len(notes))
        /\ shown.ellipsis <=> Len(notes) > budget

\* C16: in every rendered format the notes excerpt is the first B characters
\* of the notes (B = 100 for the plain text and the Markdown, 150 for the
\* HTML) and the ellipsis marker follows it if and only if the notes are
\* longer than B.
C16_ExcerptRule ==
  (run.kind = "report" /\ run.parser.printed = <<"complete">>) =>
    /\ ExcerptWithin(load_blog_posts(posts_file), run.formatter.html, 150)
    /\ ExcerptWithin(load_blog_posts(posts_file), run.formatter.text, 100)
    /\ ExcerptWithin(load_blog_posts(posts_file), run.parser.markdown, 100)

\* the fields the claim C17 names
NamedFields ==
  {"title", "status", "priority", "days_until_due", "author", "category",
   "word_count_target"}

\* the fields of a record that every format is to show
FieldsToShow(post) ==
  {"title", "status", "priority", "days_until_due"}
    \cup (IF post.author # "Unassigned" THEN {"author"} ELSE {})
    \cup (IF post.category # "" THEN {"category"} ELSE {})
    \cup (IF post.word_count_target # 0 THEN {"word_count_target"} ELSE {})

ShowsFields(posts, report) ==
  \A k \in DOMAIN report.groups : \A j \in DOMAIN report.groups[k].items :
    report.groups[k].items[j].fields \cap NamedFields
      = FieldsToShow(ItemPost(posts, report.groups[k].date, j))

\* C17: for every record the item of each rendered format (HTML, plain
\* text, Markdown, CSV) shows the same fields: title, status, priority and
\* days until due always, author when it is not Unassigned, category and
\* word-count target when they are set.
C17_SameFieldsEverywhere ==
  (run.kind = "report" /\ run.parser.printed = <<"complete">>) =>
    LET posts == load_blog_posts(posts_file)
    IN  /\ ShowsFields(posts, run.formatter.html)
        /\ ShowsFields(posts, run.formatter.text)
        /\ ShowsFields(posts, run.parser.markdown)
        /\ \A i \in DOMAIN posts :
             run.parser.csv[i].fields \cap NamedFields = FieldsToShow(posts[i])

\* a printed report names the missing file and tells to run the fetch first
NotFoundWithGuidance(printed) ==
  /\ \E i \in DOMAIN printed : printed[i] = "not_found"
  /\ \E i \in DOMAIN printed : printed[i] = "run_fetch_first"

\* C18: every operation that loads the record file (the entry points of the
\* formatter and of the parser, and send_email) reports a missing file as
\* not found, with the guidance to run the fetch first, and reports
\* something else for a file that exists and cannot be parsed.
C18_MissingFileReported ==
  run.kind = "report" =>
    /\ LoadError(posts_file) = "FileNotFoundError" =>
         /\ NotFoundWithGuidance(run.formatter.printed)
         /\ NotFoundWithGuidance(run.parser.printed)
         /\ NotFoundWithGuidance(run.send.printed)
    /\ LoadError(posts_file) = "JSONDecodeError" =>
         /\ ~NotFoundWithGuidance(run.formatter.printed)
         /\ ~NotFoundWithGuidance(run.parser.printed)
         /\ ~NotFoundWithGuidance(run.send.printed)

\* C19: when a required credential or identifier is missing (API key or
\* base id of the fetcher, sender address or app password of the sender) the
\* construction fails with a configuration error before any request or mail
\* session: a run with missing configuration never reaches the network.
C19_ConfigurationFailsFast ==
  /\ (run.kind = "fetch"
        /\ (run.env.AIRTABLE_API_KEY = "" \/ run.env.AIRTABLE_BASE_ID = "")) =>
       /\ ~run.constructed
       /\ run.requests = 0
       /\ run.printed = <<"configuration_error">>
       /\ run.posts = <<>>
       /\ posts_file = run.file_before
  /\ (run.kind = "send"
        /\ (run.env.GMAIL_SENDER_EMAIL = "" \/ run.env.GMAIL_APP_PASSWORD = "")) =>
       /\ ~run.constructed
       /\ run.sessions = 0
       /\ run.printed = <<"error">>
       /\ multi = NoMulti
       /\ calls = <<>>

\* the sender address is set and the app password is not, with a record
\* file to send: the run ends without a session
C19_Witness ==
  /\ run.kind = "send"
  /\ run.env.GMAIL_SENDER_EMAIL # ""
  /\ run.env.GMAIL_APP_PASSWORD = ""
  /\ Readable(posts_file)
  /\ ~run.constructed
  /\ run.sessions = 0

\* C20: a run of fetch_and_export.main whose fetch yields the empty sequence
\* (nothing due, or the fetch failed) leaves the record file exactly as it
\* was, neither overwritten nor cleared: the records of the last non-empty
\* fetch stay the ones a later render or send loads.
C20_EmptyFetchKeepsFile ==
  [][(run'.kind = "fetch" /\ run'.posts = <<>>) =>
       /\ posts_file' = posts_file
       /\ run'.file_after = posts_file]_vars

\* the request fails when a record file of an earlier fetch exists: the file
\* still holds the records of that fetch
C20_Witness ==
  /\ run.kind = "fetch"
  /\ run.reply.error = "ConnectionError"
  /\ run.posts = <<>>
  /\ run.file_before.exists
  /\ Len(run.file_before.content) > 0
  /\ posts_file = run.file_before

\* the heading flag of every date group of a report is the one the stored
\* days_until_due of the records under it calls for
FlagsMatchRecords(posts, report) ==
  \A k \in DOMAIN report.groups : \A j \in DOMAIN report.groups[k].items :
    LET days == ItemPost(posts, report.groups[k].date, j).days_until_due
        flag == report.groups[k].flag
    IN  /\ flag = "URGENT" <=> days <= 1
        /\ flag = "DUE SOON" <=> days = 2

\* C21: in the HTML and the plain-text report, whatever the date at render
\* time, the heading of a date group carries the URGENT flag exactly when the
\* days_until_due of its records is <= 1 and the DUE SOON flag exactly when
\* it is 2; the flag never disagrees with the days_until_due and the urgent
\* styling shown on the records under it.
C21_HeadingFlagMatchesRecords ==
  (run.kind = "report" /\ run.formatter.printed = <<"complete">>) =>
    /\ FlagsMatchRecords(load_blog_posts(posts_file), run.formatter.html)
    /\ FlagsMatchRecords(load_blog_posts(posts_file), run.formatter.text)
    /\ \A k \in DOMAIN run.formatter.html.groups :
         \A j \in DOMAIN run.formatter.html.groups[k].items :
           run.formatter.html.groups[k].items[j].urgent
             <=> run.formatter.html.groups[k].flag # "none"

====
